---- MODULE Spec2Model ----
(***************************************************************************)
(* SAT-Graph RAG: the versioned graph store kept by ConstitutionLoader     *)
(* (src/graph/loader.py) and TemporalEngine (src/graph/temporal_engine.py).*)
(*                                                                         *)
(* The Neo4j store is the record `graph`: node kinds are sets or functions *)
(* keyed by their uniqueness key (src/graph/schema.py CONSTRAINTS), edge   *)
(* kinds are sets of tuples/records.  A ctv_id "{component_id}_v{n}" is    *)
(* the pair <<component_id, n>>; an action_id "ec_{number}" is the number. *)
(* A CLV and its TextUnit are always written together, so the chain        *)
(* CTV-EXPRESSED_IN->CLV-HAS_TEXT->TextUnit is the function `text` from    *)
(* ctv_id to full_text.  Dates are integers (Cypher compares date values). *)
(***************************************************************************)
EXTENDS Integers, Sequences, FiniteSets, TLC

VARIABLES
    graph,          \* the Neo4j store
    stats,          \* TemporalEngine.stats of the one engine of the process
    calls,          \* number of apply_amendment calls made so far
    last_call,      \* arguments of the latest apply_amendment call
    touched,        \* components named by some call so far, and their ancestors
    chronological,  \* every call so far had date >= every date_start in the store
    raised,         \* some apply_amendment call ended with an exception
    frame,          \* the apply_amendment call in progress: position and locals
    batch           \* the batch driver's run: its input, mapping and position

vars ==
    <<graph, stats, calls, last_call, touched, chronological, raised, frame,
      batch>>

----------------------------------------------------------------------------
(* Bounds of the model *)

MaxDate == 3
MaxAmendments == 2
MaxChanges == 2

(* Program constants *)

EnactmentDate == 1

\* null property value (date_end of an open CTV, amendment_number of a v1 CTV)
Null == -1

\* parent_id / parent_ctv_id = None
NoParent == "None"
NoCtv == <<"None", 0>>

Dates == 1..MaxDate

----------------------------------------------------------------------------
(* The parsed constitution handed to the loader: an article U that stands  *)
(* before the first title, and title T, which holds article A (with a      *)
(* paragraph P) and article B.                                             *)

Node(id, type, full_text, children) ==
    [component_id |-> id, component_type |-> type,
     full_text |-> full_text, children |-> children]

ConstitutionJson ==
    [official_id |-> "CF1988",
     components |->
        << Node("U", "article", "Original U", << >>),
           Node("T", "title", "Title T",
                << Node("A", "article", "Original A",
                        << Node("P", "paragraph", "Original P", << >>) >>),
                   Node("B", "article", "Original B", << >>) >>) >>]

ComponentIds == {"T", "A", "P", "B", "U"}

\* The component_id strings the parser gives these components, as the list
\* of their path parts ("_".join(path_parts)): U is "art_1", T is "tit_1",
\* A is "tit_1_art_1", P is "tit_1_art_1_par_1", B is "tit_1_art_2".
IdSegments(component_id) ==
    CASE component_id = "U" -> <<"art_1">>
      [] component_id = "T" -> <<"tit_1">>
      [] component_id = "A" -> <<"tit_1", "art_1">>
      [] component_id = "P" -> <<"tit_1", "art_1", "par_1">>
      [] component_id = "B" -> <<"tit_1", "art_2">>
      [] OTHER -> <<component_id>>

----------------------------------------------------------------------------
(* The store *)

EmptyGraph ==
    [norms         |-> {},
     component     |-> << >>,   \* component_id -> properties
     has_component |-> {},      \* <<official_id, component_id>>
     has_child     |-> {},      \* <<parent component_id, child component_id>>
     has_version   |-> {},      \* <<component_id, ctv_id>>
     ctv           |-> << >>,   \* ctv_id -> properties
     text          |-> << >>,   \* ctv_id -> full_text of its CLV's TextUnit
     aggregates    |-> {},      \* [parent, child, ordering]
     supersedes    |-> {},      \* <<newer ctv_id, older ctv_id>>
     action        |-> << >>,   \* action_id -> properties
     resulted_in   |-> {}]      \* <<action_id, ctv_id>>

\* MERGE (n {key}) ON CREATE SET props
MergeNode(f, key, props) ==
    IF key \in DOMAIN f THEN f ELSE (key :> props) @@ f

----------------------------------------------------------------------------
(* ConstitutionLoader *)

CreateNorm(g, official_id) ==
    [g EXCEPT !.norms = @ \cup {official_id}]

CreateComponent(g, component_id, component_type, parent_id) ==
    LET g1 == [g EXCEPT !.component =
                  MergeNode(@, component_id,
                            [component_type |-> component_type,
                             parent_id |-> parent_id])]
    IN  IF parent_id # NoParent /\ parent_id \in DOMAIN g1.component
        THEN [g1 EXCEPT !.has_child = @ \cup {<<parent_id, component_id>>}]
        ELSE g1

\* as CreateCtv, but with SET in place of ON CREATE SET
CreateCtvAlwaysSets(g, ctv_id, component_id, version_number, date_start) ==
    IF component_id \notin DOMAIN g.component THEN g
    ELSE [g EXCEPT
            !.ctv = (ctv_id :>
                        [component_id      |-> component_id,
                         version_number    |-> version_number,
                         date_start        |-> date_start,
                         date_end          |-> Null,
                         is_active         |-> TRUE,
                         created_by_action |-> "null",
                         amendment_number  |-> Null,
                         is_repealed       |-> "null"]) @@ @,
            !.has_version = @ \cup {<<component_id, ctv_id>>}]

CreateCtv(g, ctv_id, component_id, version_number, date_start) ==
    IF component_id \notin DOMAIN g.component THEN g
    ELSE [g EXCEPT
            !.ctv = MergeNode(@, ctv_id,
                        [component_id      |-> component_id,
                         version_number    |-> version_number,
                         date_start        |-> date_start,
                         date_end          |-> Null,
                         is_active         |-> TRUE,
                         created_by_action |-> "null",
                         amendment_number  |-> Null,
                         is_repealed       |-> "null"]),
            !.has_version = @ \cup {<<component_id, ctv_id>>}]

\* _create_clv followed by _create_text_unit
CreateClvAndTextUnit(g, ctv_id, full_text) ==
    IF ctv_id \notin DOMAIN g.ctv THEN g
    ELSE [g EXCEPT !.text = MergeNode(@, ctv_id, full_text)]

\* as CreateAggregation, but the edge carries no sibling position
CreateAggregationNoOrdering(g, parent_ctv_id, child_ctv_id, ordering) ==
    IF parent_ctv_id \in DOMAIN g.ctv /\ child_ctv_id \in DOMAIN g.ctv
    THEN [g EXCEPT !.aggregates = @ \cup
            {[parent |-> parent_ctv_id, child |-> child_ctv_id,
              ordering |-> 0]}]
    ELSE g

CreateAggregation(g, parent_ctv_id, child_ctv_id, ordering) ==
    IF parent_ctv_id \in DOMAIN g.ctv /\ child_ctv_id \in DOMAIN g.ctv
    THEN [g EXCEPT !.aggregates = @ \cup
            {[parent |-> parent_ctv_id, child |-> child_ctv_id,
              ordering |-> ordering]}]
    ELSE g

LinkToNorm(g, norm_id, component_id) ==
    IF norm_id \in g.norms /\ component_id \in DOMAIN g.component
    THEN [g EXCEPT !.has_component = @ \cup {<<norm_id, component_id>>}]
    ELSE g

RECURSIVE LoadComponent(_, _, _, _, _, _)
RECURSIVE LoadChildren(_, _, _, _, _, _)

LoadComponent(g, component, norm_id, parent_id, parent_ctv_id, ordering) ==
    LET comp_id == component.component_id
        ctv_id  == <<comp_id, 1>>
        g1 == CreateComponent(g, comp_id, component.component_type, parent_id)
        g2 == CreateCtv(g1, ctv_id, comp_id, 1, EnactmentDate)
        g3 == CreateClvAndTextUnit(g2, ctv_id, component.full_text)
        g4 == IF parent_ctv_id # NoCtv
              THEN CreateAggregation(g3, parent_ctv_id, ctv_id, ordering)
              ELSE LinkToNorm(g3, norm_id, comp_id)
    IN  LoadChildren(g4, component.children, 1, norm_id, comp_id, ctv_id)

\* for idx, child in enumerate(children): ordering = idx + 1
LoadChildren(g, children, i, norm_id, parent_id, parent_ctv_id) ==
    IF i > Len(children) THEN g
    ELSE LoadChildren(
            LoadComponent(g, children[i], norm_id, parent_id, parent_ctv_id, i),
            children, i + 1, norm_id, parent_id, parent_ctv_id)

LoadFromJson(g, data) ==
    LoadChildren(CreateNorm(g, data.official_id), data.components, 1,
                 data.official_id, NoParent, NoCtv)

----------------------------------------------------------------------------
(* TemporalEngine.  The engine's operations thread the record               *)
(* e = [g: store, stats: self.stats, raised: an exception is propagating].  *)
(* Every session.run is its own auto-commit transaction                     *)
(* (src/graph/connection.py session()), so what was written before an       *)
(* exception stays written.                                                 *)

CreateAction(e, action_id, amendment_number, amendment_date) ==
    [e EXCEPT
        !.g.action = MergeNode(@, action_id,
                        [amendment_number |-> amendment_number,
                         amendment_date   |-> amendment_date]),
        !.stats.actions_created = @ + 1]

\* as ActiveCtvs, but without the WHERE v.is_active = true of the query
ActiveCtvsAnyVersion(g, component_id) ==
    {v \in DOMAIN g.ctv :
        /\ component_id \in DOMAIN g.component
        /\ <<component_id, v>> \in g.has_version}

\* MATCH (c:Component {component_id})-[:HAS_VERSION]->(v:CTV) WHERE v.is_active
ActiveCtvs(g, component_id) ==
    {v \in DOMAIN g.ctv :
        /\ component_id \in DOMAIN g.component
        /\ <<component_id, v>> \in g.has_version
        /\ g.ctv[v].is_active}

\* CloseCtv with the is_active assignment left out
CloseCtvStaysActive(g, ctv_id, end_date) ==
    [g EXCEPT !.ctv[ctv_id].date_end = end_date]

\* CloseCtv with the date_end assignment left out
CloseCtvNoDateEnd(g, ctv_id, end_date) ==
    [g EXCEPT !.ctv[ctv_id].is_active = FALSE]

\* SET v.date_end = date($end_date), v.is_active = false
CloseCtv(g, ctv_id, end_date) ==
    [g EXCEPT !.ctv[ctv_id].date_end = end_date,
              !.ctv[ctv_id].is_active = FALSE]

\* NewCtv with date_end set to the start date instead of null
NewCtvEndsAtStart(component_id, version_number, date_start, created_by, amendment_number, is_repealed) ==
    [component_id      |-> component_id,
     version_number    |-> version_number,
     date_start        |-> date_start,
     date_end          |-> date_start,
     is_active         |-> TRUE,
     created_by_action |-> created_by,
     amendment_number  |-> amendment_number,
     is_repealed       |-> is_repealed]

\* The properties of a CTV node created by the engine
NewCtv(component_id, version_number, date_start, created_by, amendment_number, is_repealed) ==
    [component_id      |-> component_id,
     version_number    |-> version_number,
     date_start        |-> date_start,
     date_end          |-> Null,
     is_active         |-> TRUE,
     created_by_action |-> created_by,
     amendment_number  |-> amendment_number,
     is_repealed       |-> is_repealed]

\* CreateCtvNode with the SUPERSEDES edge drawn from the old version to the new
CreateCtvNodeSupersedesReversed(g, ctv_id, prev_ctv, props) ==
    [g EXCEPT !.ctv = (ctv_id :> props) @@ @,
              !.has_version = @ \cup {<<props.component_id, ctv_id>>},
              !.supersedes = @ \cup {<<prev_ctv, ctv_id>>}]

\* CREATE (v:CTV {...}) CREATE (c)-[:HAS_VERSION]->(v) CREATE (v)-[:SUPERSEDES]->(prev)
CreateCtvNode(g, ctv_id, prev_ctv, props) ==
    [g EXCEPT !.ctv = (ctv_id :> props) @@ @,
              !.has_version = @ \cup {<<props.component_id, ctv_id>>},
              !.supersedes = @ \cup {<<ctv_id, prev_ctv>>}]

\* HasNewText with the repeal test left out
HasNewTextIgnoresRepeal(change_type, new_content) ==
    new_content # ""

\* if not is_repeal and new_content: the new version gets a CLV and a TextUnit
HasNewText(change_type, new_content) ==
    change_type # "repeal" /\ new_content # ""

\* Returns [e, new_ctv_id]; new_ctv_id = NoCtv stands for None.
\* LIMIT 1 picks one active CTV; the store never holds two for a component
\* when the query runs (SingleActive below), so the pick is determined.
CreateNewVersion(e, component_id, date_start, new_content, change_type, amendment_number) ==
    LET result == ActiveCtvs(e.g, component_id)
    IN  IF result = {} THEN [e |-> e, new_ctv_id |-> NoCtv]
        ELSE
        LET current_ctv_id == CHOOSE v \in result : TRUE
            new_version == e.g.ctv[current_ctv_id].version_number + 1
            new_ctv_id  == <<component_id, new_version>>
            closed == [e EXCEPT !.g = CloseCtv(@, current_ctv_id, date_start),
                                !.stats.closed_ctvs = @ + 1]
            is_repeal == (change_type = "repeal")
            created ==
                [closed EXCEPT
                    !.g = CreateCtvNode(@, new_ctv_id, current_ctv_id,
                            NewCtv(component_id, new_version, date_start,
                                   "amendment", amendment_number,
                                   IF is_repeal THEN "true" ELSE "false")),
                    !.stats.new_ctvs = @ + 1]
            with_text ==
                IF HasNewText(change_type, new_content)
                THEN [created EXCEPT !.g.text = (new_ctv_id :> new_content) @@ @]
                ELSE created
        IN  IF new_ctv_id \in DOMAIN closed.g.ctv
            THEN \* uniqueness constraint ctv_id: the CREATE raises
                 [e |-> [closed EXCEPT !.raised = TRUE], new_ctv_id |-> NoCtv]
            ELSE [e |-> with_text, new_ctv_id |-> new_ctv_id]

Parents(g, component_id) ==
    {p \in DOMAIN g.component : <<p, component_id>> \in g.has_child}

Children(g, component_id) ==
    {c \in DOMAIN g.component : <<component_id, c>> \in g.has_child}

\* GetAncestorChain with the HAS_CHILD pattern undirected: every other
\* component connected to c
RECURSIVE Connected(_, _, _)
Connected(g, frontier, seen) ==
    LET next == {c \in DOMAIN g.component \ seen :
                    \E f \in frontier :
                        <<c, f>> \in g.has_child \/ <<f, c>> \in g.has_child}
    IN  IF next = {} THEN seen ELSE Connected(g, next, seen \cup next)

GetAncestorChainUndirected(g, component_id) ==
    IF component_id \notin DOMAIN g.component THEN {}
    ELSE Connected(g, {component_id}, {component_id}) \ {component_id}

\* GetAncestorChain with the path one HAS_CHILD edge long: the parent only
GetAncestorChainOneLevel(g, component_id) ==
    {p \in DOMAIN g.component : <<p, component_id>> \in g.has_child}

\* MATCH (c)<-[:HAS_CHILD*]-(ancestor): every component above c
RECURSIVE GetAncestorChain(_, _)
GetAncestorChain(g, component_id) ==
    LET ps == Parents(g, component_id)
    IN  ps \cup UNION {GetAncestorChain(g, p) : p \in ps}

\* length of the HAS_CHILD path from the root down to the component
RECURSIVE Depth(_, _)
Depth(g, component_id) ==
    IF Parents(g, component_id) = {} THEN 0
    ELSE 1 + Depth(g, CHOOSE p \in Parents(g, component_id) : TRUE)

RECURSIVE Perms(_)
Perms(S) ==
    IF S = {} THEN {<< >>}
    ELSE UNION {{<<x>> \o p : p \in Perms(S \ {x})} : x \in S}

Reverse(s) == [i \in 1..Len(s) |-> s[Len(s) + 1 - i]]

\* as SortByDepth, but sorted.reverse() is left out
SortByDepthAscending(g, component_ids, reverse) ==
    LET found == component_ids \cap DOMAIN g.component
    IN  {s \in Perms(found) :
            \A i, j \in 1..Len(s) :
                i < j => Depth(g, s[i]) <= Depth(g, s[j])}

\* ORDER BY depth leaves the order of equal depths to the store: every order
\* the query may return is a result.
SortByDepth(g, component_ids, reverse) ==
    LET found == component_ids \cap DOMAIN g.component
        sorted == {s \in Perms(found) :
                      \A i, j \in 1..Len(s) :
                          i < j => Depth(g, s[i]) <= Depth(g, s[j])}
    IN  IF reverse THEN {Reverse(s) : s \in sorted} ELSE sorted

\* AggregationRows with the {is_active: true} filter on the child CTV left out
AggregationRowsAnyVersion(g, component_id, old_ctv) ==
    UNION {
        LET old_rels == {r \in g.aggregates :
                            /\ r.parent = old_ctv
                            /\ g.ctv[r.child].component_id = child_comp}
            orderings == IF old_rels = {} THEN {0}
                         ELSE {r.ordering : r \in old_rels}
        IN  {[child |-> child_ctv, ordering |-> o] :
                child_ctv \in {v \in DOMAIN g.ctv :
                                  <<child_comp, v>> \in g.has_version},
                o \in orderings}
        : child_comp \in Children(g, component_id)}

\* The rows of the AGGREGATES query: one per active CTV of each HAS_CHILD child
\* and per AGGREGATES edge of the old parent CTV to that child component
\* (COALESCE(old_rel.ordering, 0) when there is none).
AggregationRows(g, component_id, old_ctv) ==
    UNION {
        LET old_rels == {r \in g.aggregates :
                            /\ r.parent = old_ctv
                            /\ g.ctv[r.child].component_id = child_comp}
            orderings == IF old_rels = {} THEN {0}
                         ELSE {r.ordering : r \in old_rels}
        IN  {[child |-> child_ctv, ordering |-> o] :
                child_ctv \in ActiveCtvs(g, child_comp), o \in orderings}
        : child_comp \in Children(g, component_id)}

UpdateAncestorAggregation(e, component_id, amendment_date, amendment_number) ==
    LET result == ActiveCtvs(e.g, component_id)
    IN  IF result = {} THEN e
        ELSE
        LET current_ctv_id == CHOOSE v \in result : TRUE
            new_version == e.g.ctv[current_ctv_id].version_number + 1
            new_ctv_id  == <<component_id, new_version>>
            closed == [e EXCEPT !.g = CloseCtv(@, current_ctv_id, amendment_date),
                                !.stats.closed_ctvs = @ + 1]
            created ==
                [closed EXCEPT
                    !.g = CreateCtvNode(@, new_ctv_id, current_ctv_id,
                            NewCtv(component_id, new_version, amendment_date,
                                   "amendment_propagation", amendment_number,
                                   "null")),
                    !.stats.new_ctvs = @ + 1]
            \* copy CLV and TextUnit of the previous version, when it has them
            copied ==
                IF current_ctv_id \in DOMAIN created.g.text
                THEN [created EXCEPT !.g.text =
                        (new_ctv_id :> created.g.text[current_ctv_id]) @@ @]
                ELSE created
            rows == AggregationRows(copied.g, component_id, current_ctv_id)
            aggregated ==
                [copied EXCEPT
                    !.g.aggregates = @ \cup
                        {[parent |-> new_ctv_id, child |-> r.child,
                          ordering |-> r.ordering] : r \in rows},
                    !.stats.new_aggregations = @ + Cardinality(rows)]
            reused == Cardinality(
                {r \in aggregated.g.aggregates :
                    /\ r.parent = new_ctv_id
                    /\ aggregated.g.ctv[r.child].date_start < amendment_date})
        IN  IF new_ctv_id \in DOMAIN closed.g.ctv
            THEN [closed EXCEPT !.raised = TRUE]
            ELSE [aggregated EXCEPT !.stats.reused_ctvs = @ + reused]

\* MATCH (a:Action), (v:CTV) MERGE (a)-[:RESULTED_IN]->(v)
LinkActionToCtv(e, action_id, ctv_id) ==
    IF action_id \in DOMAIN e.g.action /\ ctv_id \in DOMAIN e.g.ctv
    THEN [e EXCEPT !.g.resulted_in = @ \cup {<<action_id, ctv_id>>}]
    ELSE e

\* for change in changes: ...   (st = [e, affected_ancestors])
RECURSIVE ProcessChanges(_, _, _, _, _)
ProcessChanges(st, changes, i, amendment_number, amendment_date) ==
    IF i > Len(changes) \/ st.e.raised THEN st
    ELSE
    LET change == changes[i]
        r == CreateNewVersion(st.e, change.component_id, amendment_date,
                              change.new_content, change.change_type,
                              amendment_number)
        next ==
            IF r.new_ctv_id # NoCtv
            THEN [e |-> LinkActionToCtv(r.e, amendment_number, r.new_ctv_id),
                  affected_ancestors |-> st.affected_ancestors \cup
                        GetAncestorChain(r.e.g, change.component_id)]
            ELSE [e |-> r.e, affected_ancestors |-> st.affected_ancestors]
    IN  ProcessChanges(next, changes, i + 1, amendment_number, amendment_date)

\* for ancestor_id in sorted_ancestors: ...
RECURSIVE ProcessAncestors(_, _, _, _, _)
ProcessAncestors(e, sorted_ancestors, i, amendment_date, amendment_number) ==
    IF i > Len(sorted_ancestors) \/ e.raised THEN e
    ELSE ProcessAncestors(
            UpdateAncestorAggregation(e, sorted_ancestors[i], amendment_date,
                                      amendment_number),
            sorted_ancestors, i + 1, amendment_date, amendment_number)

\* [c["component_id"] for c in changes], as a set
NamedIds(changes) == {changes[i].component_id : i \in 1..Len(changes)}

\* The ancestors the properties speak of: every component from which a path
\* of HAS_CHILD edges leads to one of comps, read off the edges themselves.
RECURSIVE Climb(_, _, _)
Climb(g, frontier, found) ==
    LET up == {e[1] : e \in {h \in g.has_child : h[2] \in frontier}} \ found
    IN  IF up = {} THEN found ELSE Climb(g, up, found \cup up)

AncestorsOfAll(g, comps) == Climb(g, comps, {})

MaxDateStart(g) ==
    IF DOMAIN g.ctv = {} THEN 0
    ELSE CHOOSE d \in {g.ctv[v].date_start : v \in DOMAIN g.ctv} :
            \A v \in DOMAIN g.ctv : g.ctv[v].date_start <= d

----------------------------------------------------------------------------
(* Actions *)

NoCall == [number |-> 0, date |-> 0, changes |-> << >>]

\* the batch driver is not running
NoBatch == [pc |-> "idle", amendments |-> << >>, mapping |-> << >>, i |-> 0]

\* no apply_amendment call is in progress
NoFrame ==
    [pc |-> "idle", number |-> 0, date |-> 0, changes |-> << >>, i |-> 0,
     affected_ancestors |-> {}, sorted_ancestors |-> << >>, j |-> 0,
     current_ctv_id |-> NoCtv, new_ctv_id |-> NoCtv, before |-> EmptyGraph]

Init ==
    /\ graph = EmptyGraph
    /\ stats = [new_ctvs |-> 0, closed_ctvs |-> 0, reused_ctvs |-> 0,
                new_aggregations |-> 0, actions_created |-> 0]
    /\ calls = 0
    /\ last_call = NoCall
    /\ touched = {}
    /\ chronological = TRUE
    /\ raised = FALSE
    /\ frame = NoFrame
    /\ batch = NoBatch

\* ConstitutionLoader.load_from_json(json_path, enactment_date)
Load ==
    /\ graph' = LoadFromJson(graph, ConstitutionJson)
    /\ UNCHANGED <<stats, batch, calls, last_call, touched, chronological, raised,
                   frame>>

\* TemporalEngine.apply_amendment(amendment_number, amendment_date, changes)
ApplyAmendment(amendment_number, amendment_date, changes) ==
    /\ calls < MaxAmendments
    /\ LET e0 == [g |-> graph, stats |-> stats, raised |-> FALSE]
           e1 == CreateAction(e0, amendment_number, amendment_number,
                              amendment_date)
           st == ProcessChanges([e |-> e1, affected_ancestors |-> {}],
                                changes, 1, amendment_number, amendment_date)
       IN  \E sorted_ancestors \in
                SortByDepth(st.e.g, st.affected_ancestors, TRUE) :
              LET e2 == ProcessAncestors(st.e, sorted_ancestors, 1,
                                         amendment_date, amendment_number)
              IN  /\ graph' = e2.g
                  /\ stats' = e2.stats
                  /\ raised' = (raised \/ e2.raised)
    /\ calls' = calls + 1
    /\ last_call' = [number |-> amendment_number, date |-> amendment_date,
                     changes |-> changes]
    /\ touched' = touched \cup NamedIds(changes)
                        \cup AncestorsOfAll(graph, NamedIds(changes))
    /\ chronological' = (chronological /\ amendment_date >= MaxDateStart(graph))
    /\ UNCHANGED frame

\* The changes the callers of this specification hand to the engine
Change(component_id, new_content, change_type) ==
    [component_id |-> component_id, new_content |-> new_content,
     change_type |-> change_type]

\* Article U is named by no amendment.
ChangeTargets == {"T", "A", "P", "B"}

ModifyChanges == {Change(c, "Amended", "modify") : c \in ChangeTargets}

ChangeLists(S) == UNION {[1..n -> S] : n \in 0..MaxChanges}

\* Each call carries a fresh amendment number, as the amendments of
\* parsed_amendments.json do.
Amend ==
    /\ \E amendment_date \in Dates, changes \in ChangeLists(ModifyChanges) :
            ApplyAmendment(calls + 1, amendment_date, changes)
    /\ UNCHANGED batch

Next ==
    \/ Load
    \/ Amend

Spec == Init /\ [][Next]_vars

----------------------------------------------------------------------------
(* Amendments of every kind the batch driver and the engine's callers make: *)
(* a change carries a text or the empty string (change.get("new_content",   *)
(* "")) and is a modification or a repeal; a caller may also hand the       *)
(* engine an amendment it has applied before (the batch driver resumed from *)
(* an earlier start_idx).                                                   *)

ContentTargets == {"A", "P"}

ContentChanges ==
    {Change(c, new_content, change_type) :
        c \in ContentTargets,
        new_content \in {"Amended", ""},
        change_type \in {"modify", "repeal"}}

AmendContent ==
    /\ \E amendment_date \in Dates, changes \in ChangeLists(ContentChanges) :
            ApplyAmendment(calls + 1, amendment_date, changes)
    /\ UNCHANGED batch

\* the latest call made once more, with the same arguments
Replay ==
    /\ calls >= 1
    /\ ApplyAmendment(last_call.number, last_call.date, last_call.changes)
    /\ UNCHANGED batch

NextContent ==
    \/ Load
    \/ AmendContent
    \/ Replay

SpecContent == Init /\ [][NextContent]_vars

----------------------------------------------------------------------------
(* apply_amendment one store operation at a time.  Every session.run of the *)
(* engine is an action of its own; between two of them the store holds what *)
(* the earlier ones committed, and that is what any other session reads.    *)
(* frame.before keeps the store as it was when the call began.              *)

\* "for change in changes" moves to the next change, or on to the ancestors
NextChange(f) ==
    [f EXCEPT !.i = @ + 1,
              !.pc = IF f.i + 1 <= Len(f.changes) THEN "query" ELSE "sort",
              !.current_ctv_id = NoCtv,
              !.new_ctv_id = NoCtv]

\* "for ancestor_id in sorted_ancestors" moves to the next ancestor, or returns
NextAncestor(f) ==
    [f EXCEPT !.j = @ + 1,
              !.pc = IF f.j + 1 <= Len(f.sorted_ancestors)
                     THEN "anc_query" ELSE "return",
              !.current_ctv_id = NoCtv,
              !.new_ctv_id = NoCtv]

\* apply_amendment is entered and _create_action has run
BeginAmendment(amendment_number, amendment_date, changes) ==
    /\ frame.pc = "idle"
    /\ calls < MaxAmendments
    /\ LET e == CreateAction([g |-> graph, stats |-> stats, raised |-> FALSE],
                             amendment_number, amendment_number,
                             amendment_date)
       IN  /\ graph' = e.g
           /\ stats' = e.stats
    /\ frame' = NextChange([NoFrame EXCEPT !.number = amendment_number,
                                           !.date = amendment_date,
                                           !.changes = changes,
                                           !.before = graph])
    /\ calls' = calls + 1
    /\ last_call' = [number |-> amendment_number, date |-> amendment_date,
                     changes |-> changes]
    /\ touched' = touched \cup NamedIds(changes)
                        \cup AncestorsOfAll(graph, NamedIds(changes))
    /\ chronological' = (chronological /\ amendment_date >= MaxDateStart(graph))
    /\ UNCHANGED <<raised, batch>>

\* as QueryActive, but a component without an active CTV still hands its
\* ancestors to the propagation
QueryActiveCollectsAncestors ==
    /\ frame.pc = "query"
    /\ LET component_id == frame.changes[frame.i].component_id
           result == ActiveCtvs(graph, component_id)
       IN  IF result = {}
           THEN frame' = [frame EXCEPT !.pc = "ancestors"]
           ELSE \E current_ctv_id \in result :
                    frame' = [frame EXCEPT
                        !.pc = "close",
                        !.current_ctv_id = current_ctv_id,
                        !.new_ctv_id =
                            <<component_id,
                              graph.ctv[current_ctv_id].version_number + 1>>]
    /\ UNCHANGED <<graph, stats, batch, calls, last_call, touched, chronological,
                   raised>>

\* _create_new_version: the query for the active CTV (LIMIT 1)
QueryActive ==
    /\ frame.pc = "query"
    /\ LET component_id == frame.changes[frame.i].component_id
           result == ActiveCtvs(graph, component_id)
       IN  IF result = {}
           THEN frame' = NextChange(frame)
           ELSE \E current_ctv_id \in result :
                    frame' = [frame EXCEPT
                        !.pc = "close",
                        !.current_ctv_id = current_ctv_id,
                        !.new_ctv_id =
                            <<component_id,
                              graph.ctv[current_ctv_id].version_number + 1>>]
    /\ UNCHANGED <<graph, stats, batch, calls, last_call, touched, chronological,
                   raised>>

\* _create_new_version: close the current version
CloseCurrent ==
    /\ frame.pc = "close"
    /\ graph' = CloseCtv(graph, frame.current_ctv_id, frame.date)
    /\ stats' = [stats EXCEPT !.closed_ctvs = @ + 1]
    /\ frame' = [frame EXCEPT !.pc = "create"]
    /\ UNCHANGED <<batch, calls, last_call, touched, chronological, raised>>

\* _create_new_version: create the new version; the ctv_id uniqueness
\* constraint makes the CREATE raise when the id is taken
CreateVersion ==
    /\ frame.pc = "create"
    /\ LET change == frame.changes[frame.i]
           is_repeal == (change.change_type = "repeal")
       IN  IF frame.new_ctv_id \in DOMAIN graph.ctv
           THEN /\ frame' = NoFrame
                /\ raised' = TRUE
                /\ UNCHANGED <<graph, stats>>
           ELSE /\ graph' = CreateCtvNode(graph, frame.new_ctv_id,
                                frame.current_ctv_id,
                                NewCtv(change.component_id, frame.new_ctv_id[2],
                                       frame.date, "amendment", frame.number,
                                       IF is_repeal THEN "true" ELSE "false"))
                /\ stats' = [stats EXCEPT !.new_ctvs = @ + 1]
                /\ frame' = [frame EXCEPT !.pc =
                                IF HasNewText(change.change_type,
                                              change.new_content)
                                THEN "text" ELSE "link"]
                /\ UNCHANGED raised
    /\ UNCHANGED <<batch, calls, last_call, touched, chronological>>

\* _create_new_version: create CLV and TextUnit of the new version
CreateText ==
    /\ frame.pc = "text"
    /\ graph' = [graph EXCEPT !.text =
                    (frame.new_ctv_id :> frame.changes[frame.i].new_content) @@ @]
    /\ frame' = [frame EXCEPT !.pc = "link"]
    /\ UNCHANGED <<stats, batch, calls, last_call, touched, chronological, raised>>

\* _link_action_to_ctv
LinkAction ==
    /\ frame.pc = "link"
    /\ graph' = LinkActionToCtv([g |-> graph], frame.number,
                                frame.new_ctv_id).g
    /\ frame' = [frame EXCEPT !.pc = "ancestors"]
    /\ UNCHANGED <<stats, batch, calls, last_call, touched, chronological, raised>>

\* _get_ancestor_chain and affected_ancestors.update
CollectAncestors ==
    /\ frame.pc = "ancestors"
    /\ frame' = NextChange([frame EXCEPT !.affected_ancestors = @ \cup
                    GetAncestorChain(graph,
                                     frame.changes[frame.i].component_id)])
    /\ UNCHANGED <<graph, stats, batch, calls, last_call, touched, chronological,
                   raised>>

\* _sort_by_depth(affected_ancestors, reverse=True)
SortAncestors ==
    /\ frame.pc = "sort"
    /\ \E sorted_ancestors \in
            SortByDepth(graph, frame.affected_ancestors, TRUE) :
         frame' = NextAncestor([frame EXCEPT
                        !.sorted_ancestors = sorted_ancestors, !.j = 0])
    /\ UNCHANGED <<graph, stats, batch, calls, last_call, touched, chronological,
                   raised>>

\* _update_ancestor_aggregation: the query for the active CTV (LIMIT 1); with
\* no row it logs a warning and returns
AncestorQuery ==
    /\ frame.pc = "anc_query"
    /\ LET component_id == frame.sorted_ancestors[frame.j]
           result == ActiveCtvs(graph, component_id)
       IN  IF result = {}
           THEN frame' = NextAncestor(frame)
           ELSE \E current_ctv_id \in result :
                    frame' = [frame EXCEPT
                        !.pc = "anc_close",
                        !.current_ctv_id = current_ctv_id,
                        !.new_ctv_id =
                            <<component_id,
                              graph.ctv[current_ctv_id].version_number + 1>>]
    /\ UNCHANGED <<graph, stats, batch, calls, last_call, touched, chronological,
                   raised>>

\* _update_ancestor_aggregation: close the current version
AncestorClose ==
    /\ frame.pc = "anc_close"
    /\ graph' = CloseCtv(graph, frame.current_ctv_id, frame.date)
    /\ stats' = [stats EXCEPT !.closed_ctvs = @ + 1]
    /\ frame' = [frame EXCEPT !.pc = "anc_create"]
    /\ UNCHANGED <<batch, calls, last_call, touched, chronological, raised>>

\* _update_ancestor_aggregation: create the new ancestor CTV
AncestorCreate ==
    /\ frame.pc = "anc_create"
    /\ IF frame.new_ctv_id \in DOMAIN graph.ctv
       THEN /\ frame' = NoFrame
            /\ raised' = TRUE
            /\ UNCHANGED <<graph, stats>>
       ELSE /\ graph' = CreateCtvNode(graph, frame.new_ctv_id,
                            frame.current_ctv_id,
                            NewCtv(frame.sorted_ancestors[frame.j],
                                   frame.new_ctv_id[2], frame.date,
                                   "amendment_propagation", frame.number,
                                   "null"))
            /\ stats' = [stats EXCEPT !.new_ctvs = @ + 1]
            /\ frame' = [frame EXCEPT !.pc = "anc_text"]
            /\ UNCHANGED raised
    /\ UNCHANGED <<batch, calls, last_call, touched, chronological>>

\* _update_ancestor_aggregation: copy CLV and TextUnit of the previous version
AncestorCopyText ==
    /\ frame.pc = "anc_text"
    /\ graph' = IF frame.current_ctv_id \in DOMAIN graph.text
                THEN [graph EXCEPT !.text =
                        (frame.new_ctv_id :> graph.text[frame.current_ctv_id])
                            @@ @]
                ELSE graph
    /\ frame' = [frame EXCEPT !.pc = "anc_aggregates"]
    /\ UNCHANGED <<stats, batch, calls, last_call, touched, chronological, raised>>

\* _update_ancestor_aggregation: create the AGGREGATES edges
AncestorAggregates ==
    /\ frame.pc = "anc_aggregates"
    /\ LET rows == AggregationRows(graph, frame.sorted_ancestors[frame.j],
                                   frame.current_ctv_id)
       IN  /\ graph' = [graph EXCEPT !.aggregates = @ \cup
                            {[parent |-> frame.new_ctv_id, child |-> r.child,
                              ordering |-> r.ordering] : r \in rows}]
           /\ stats' = [stats EXCEPT
                            !.new_aggregations = @ + Cardinality(rows)]
    /\ frame' = [frame EXCEPT !.pc = "anc_reused"]
    /\ UNCHANGED <<batch, calls, last_call, touched, chronological, raised>>

\* _update_ancestor_aggregation: count the reused child CTVs
AncestorReused ==
    /\ frame.pc = "anc_reused"
    /\ stats' = [stats EXCEPT !.reused_ctvs = @ + Cardinality(
                    {r \in graph.aggregates :
                        /\ r.parent = frame.new_ctv_id
                        /\ graph.ctv[r.child].date_start < frame.date})]
    /\ frame' = NextAncestor(frame)
    /\ UNCHANGED <<graph, batch, calls, last_call, touched, chronological, raised>>

\* return self.stats
Return ==
    /\ frame.pc = "return"
    /\ frame' = NoFrame
    /\ UNCHANGED <<graph, stats, batch, calls, last_call, touched, chronological,
                   raised>>

\* The store operation the call is about to make raises (connection loss,
\* ServiceUnavailable): the exception leaves apply_amendment, and what the
\* earlier auto-commit transactions wrote stays written.
StoreError ==
    /\ frame.pc \notin {"idle", "return"}
    \* _sort_by_depth runs no query for an empty set
    /\ ~(frame.pc = "sort" /\ frame.affected_ancestors = {})
    /\ frame' = NoFrame
    /\ raised' = TRUE
    /\ UNCHANGED <<graph, stats, batch, calls, last_call, touched, chronological>>

\* a modification of the paragraph P and a repeal of the article B, as
\* the batch driver writes them, and a repeal that carries a text
StepChanges ==
    {Change("P", "Amended", "modify"),
     Change("B", "", "repeal"),
     Change("B", "Amended", "repeal")}

Begin ==
    \E amendment_date \in Dates, changes \in ChangeLists(StepChanges) :
        BeginAmendment(calls + 1, amendment_date, changes)

\* the load, made before the first amendment
LoadFirst ==
    /\ calls = 0
    /\ Load

NextSteps ==
    \/ LoadFirst
    \/ Begin
    \/ QueryActive
    \/ CloseCurrent
    \/ CreateVersion
    \/ CreateText
    \/ LinkAction
    \/ CollectAncestors
    \/ SortAncestors
    \/ AncestorQuery
    \/ AncestorClose
    \/ AncestorCreate
    \/ AncestorCopyText
    \/ AncestorAggregates
    \/ AncestorReused
    \/ Return
    \/ StoreError

SpecSteps == Init /\ [][NextSteps]_vars

----------------------------------------------------------------------------
(* scripts/process_all_amendments.py: main() reads the parsed amendments,   *)
(* builds the article mapping from the store and hands both to              *)
(* process_amendments_batch, which walks the list from start_idx = 0 and    *)
(* makes one apply_amendment call for every amendment that has changes.     *)
(* An article number is the string of its number.                           *)

\* the ordering_id the parser gives each component (its number)
OrderingId(component_id) ==
    CASE component_id = "U" -> "1"
      [] component_id = "T" -> "1"
      [] component_id = "A" -> "1"
      [] component_id = "P" -> "1"
      [] component_id = "B" -> "2"
      [] OTHER -> ""

\* the rows of get_component_mapping's query, written into the dict one after
\* the other: a later row overwrites an earlier row's key
RECURSIVE MappingOf(_, _, _)
MappingOf(rows, i, mapping) ==
    IF i > Len(rows) THEN mapping
    ELSE LET comp_id == rows[i]
             \* if ordering: mapping[ordering] = comp_id
             m1 == IF OrderingId(comp_id) # ""
                   THEN (OrderingId(comp_id) :> comp_id) @@ mapping
                   ELSE mapping
             \* if "_art_" in comp_id: the number that follows "_art_"
             m2 == IF Len(IdSegments(comp_id)) > 1
                   THEN (OrderingId(comp_id) :> comp_id) @@ m1
                   ELSE m1
         IN  MappingOf(rows, i + 1, m2)

\* get_component_mapping(conn): the query has no ORDER BY
GetComponentMapping(g) ==
    LET articles == {c \in DOMAIN g.component :
                        g.component[c].component_type = "article"}
    IN  {MappingOf(rows, 1, << >>) : rows \in Perms(articles)}

\* the changes process_amendments_batch collects for one list of articles
RECURSIVE CollectChanges(_, _, _, _, _)
CollectChanges(articles, i, mapping, new_content, change_type) ==
    IF i > Len(articles) THEN << >>
    ELSE (IF articles[i] \in DOMAIN mapping
          THEN <<Change(mapping[articles[i]], new_content, change_type)>>
          ELSE << >>)
         \o CollectChanges(articles, i + 1, mapping, new_content, change_type)

\* modified articles, then added articles (treated as modified), then
\* repealed articles
BatchChanges(amendment, mapping) ==
    CollectChanges(amendment.articles_modified, 1, mapping, "Amended",
                   "modify")
    \o CollectChanges(amendment.articles_added, 1, mapping, "Amended",
                      "modify")
    \o CollectChanges(amendment.articles_repealed, 1, mapping, "", "repeal")

\* An amendment of parsed_amendments.json
Amendment(number, date, modified, added, repealed) ==
    [number |-> number, date |-> date, articles_modified |-> modified,
     articles_added |-> added, articles_repealed |-> repealed]

\* what an amendment does to the articles: article "9" is not in the store
AmendmentShapes ==
    {<< <<"1">>, << >>, << >> >>,
     << <<"2">>, << >>, << >> >>,
     << <<"1">>, <<"1">>, << >> >>,
     << << >>, << >>, <<"2">> >>,
     << <<"9">>, << >>, << >> >>}

\* the files the driver may be handed: amendments with distinct numbers, in
\* any order of file position and of date
AmendmentFiles ==
    UNION {{[i \in 1..n |-> Amendment(number[i], date[i], shape[i][1],
                                      shape[i][2], shape[i][3])] :
                number \in {f \in [1..n -> 1..n] :
                                \A i, j \in 1..n : f[i] = f[j] => i = j},
                date \in [1..n -> Dates],
                shape \in [1..n -> AmendmentShapes]} :
           n \in 0..MaxAmendments}

\* main(): load_amendments() and get_component_mapping(conn)
StartBatch ==
    /\ batch.pc = "idle"
    /\ calls = 0
    /\ \E amendments \in AmendmentFiles, mapping \in GetComponentMapping(graph) :
            batch' = [pc |-> "loop", amendments |-> amendments,
                      mapping |-> mapping, i |-> 1]
    /\ UNCHANGED <<graph, stats, calls, last_call, touched, chronological,
                   raised, frame>>

\* process_amendments_batch: one pass of "for i, amendment in enumerate(...)";
\* an exception of apply_amendment is caught and the loop goes on
BatchIteration ==
    /\ batch.pc = "loop"
    /\ batch.i <= Len(batch.amendments)
    /\ LET amendment == batch.amendments[batch.i]
           changes == BatchChanges(amendment, batch.mapping)
       IN  IF changes = << >>
           THEN UNCHANGED <<graph, stats, calls, last_call, touched,
                            chronological, raised, frame>>
           ELSE ApplyAmendment(amendment.number, amendment.date, changes)
    /\ batch' = [batch EXCEPT !.i = @ + 1]

\* process_amendments_batch returns its counts
BatchReturn ==
    /\ batch.pc = "loop"
    /\ batch.i > Len(batch.amendments)
    /\ batch' = [batch EXCEPT !.pc = "done"]
    /\ UNCHANGED <<graph, stats, calls, last_call, touched, chronological,
                   raised, frame>>

NextBatch ==
    \/ LoadFirst
    \/ StartBatch
    \/ BatchIteration
    \/ BatchReturn

SpecBatch == Init /\ [][NextBatch]_vars

----------------------------------------------------------------------------
(* HybridRetriever.  A query without ORDER BY returns its rows in an order  *)
(* the store chooses, so a retrieval is the set of the results it may give. *)

DefaultTopK == 10

TopKs == {1, 2, DefaultTopK}

\* QueryPlanner.plan: target_component = f"art_{target_article}"
PlannerTargets == {<<"art_1">>, <<"art_2">>, <<"art_3">>}

\* the comp_id strings a retrieval is asked for
Requests == {IdSegments(c) : c \in ComponentIds} \cup PlannerTargets

\* string ENDS WITH suffix, on the path parts of the two strings
EndsWith(string, suffix) ==
    /\ Len(suffix) <= Len(string)
    /\ SubSeq(string, Len(string) - Len(suffix) + 1, Len(string)) = suffix

Min(a, b) == IF a <= b THEN a ELSE b

\* t.full_text of an OPTIONAL MATCH: null when the CTV has no text
Shown(g, ctv_id) ==
    IF ctv_id \in DOMAIN g.text THEN g.text[ctv_id] ELSE "null"

\* the rows of the point-in-time query before LIMIT 1
PointInTimeRows(g, comp_id, query_date) ==
    {[component_id   |-> c,
      component_type |-> g.component[c].component_type,
      text           |-> g.text[v],
      version        |-> g.ctv[v].version_number,
      start          |-> g.ctv[v].date_start,
      end            |-> g.ctv[v].date_end,
      is_active      |-> g.ctv[v].is_active] :
        <<c, v>> \in {h \in g.has_version :
            /\ h[1] \in DOMAIN g.component
            /\ (IdSegments(h[1]) = comp_id
                    \/ EndsWith(IdSegments(h[1]), comp_id))
            /\ g.ctv[h[2]].date_start <= query_date
            /\ (g.ctv[h[2]].date_end = Null
                    \/ g.ctv[h[2]].date_end > query_date)
            /\ h[2] \in DOMAIN g.text}}

\* _retrieve_point_in_time with plan.target_component: LIMIT 1
RetrievePointInTime(g, comp_id, query_date) ==
    LET rows == PointInTimeRows(g, comp_id, query_date)
    IN  IF rows = {} THEN {<< >>} ELSE {<<r>> : r \in rows}

\* the rows of the provenance query by amendment number before LIMIT
ProvenanceRows(g, amend_num) ==
    UNION {
        LET a == l[1]
            v == l[2]
            prevs == {e[2] : e \in {x \in g.supersedes : x[1] = v}}
            prev_texts == IF prevs = {} THEN {"null"}
                          ELSE {Shown(g, prev) : prev \in prevs}
        IN  {[component_id   |-> g.ctv[v].component_id,
              component_type |->
                    g.component[g.ctv[v].component_id].component_type,
              text           |-> g.text[v],
              amendment      |-> g.action[a].amendment_number,
              date           |-> g.action[a].amendment_date,
              previous_text  |-> previous_text,
              version        |-> g.ctv[v].version_number,
              start          |-> g.ctv[v].date_start] :
                previous_text \in prev_texts}
        : l \in {x \in g.resulted_in :
                    /\ g.action[x[1]].amendment_number = amend_num
                    /\ g.ctv[x[2]].component_id \in DOMAIN g.component
                    /\ x[2] \in DOMAIN g.text}}

\* _retrieve_provenance with plan.amendment_number: LIMIT $limit
RetrieveProvenance(g, amend_num, top_k) ==
    LET rows == ProvenanceRows(g, amend_num)
    IN  {result \in SUBSET rows :
            Cardinality(result) = Min(top_k, Cardinality(rows))}

\* the rows of the version-history query before ORDER BY and LIMIT
HistoryRows(g, comp_id) ==
    UNION {
        LET v == h[2]
            prevs == {e[2] : e \in {x \in g.supersedes : x[1] = v}}
            previous_versions ==
                IF prevs = {} THEN {Null}
                ELSE {g.ctv[prev].version_number : prev \in prevs}
        IN  {[component_id     |-> h[1],
              component_type   |-> g.component[h[1]].component_type,
              text             |-> g.text[v],
              version          |-> g.ctv[v].version_number,
              start            |-> g.ctv[v].date_start,
              end              |-> g.ctv[v].date_end,
              amendment        |-> g.ctv[v].amendment_number,
              previous_version |-> previous_version] :
                previous_version \in previous_versions}
        : h \in {x \in g.has_version :
                    /\ x[1] \in DOMAIN g.component
                    /\ IdSegments(x[1]) = comp_id
                    /\ x[2] \in DOMAIN g.text}}

\* _retrieve_provenance with plan.target_component:
\* ORDER BY v.version_number DESC LIMIT $limit
RetrieveHistory(g, comp_id, top_k) ==
    LET rows == HistoryRows(g, comp_id)
        ordered == {s \in Perms(rows) :
                        \A i, j \in 1..Len(s) :
                            i < j => s[i].version >= s[j].version}
    IN  {SubSeq(s, 1, Min(top_k, Len(s))) : s \in ordered}

----------------------------------------------------------------------------
(* Vocabulary of the properties *)

Loaded == ComponentIds \subseteq DOMAIN graph.component

CtvsOf(g, component_id) ==
    {v \in DOMAIN g.ctv : <<component_id, v>> \in g.has_version}

\* D lies in the half-open interval [date_start, date_end), null = unbounded
ValidAt(c, D) ==
    c.date_start <= D /\ (c.date_end = Null \/ D < c.date_end)

QueryDates == 0..(MaxDate + 1)

\* the child CTVs of component X that the CTV v aggregates
AggregatedOf(g, v, X) ==
    {r.child : r \in {q \in g.aggregates :
                        q.parent = v /\ g.ctv[q.child].component_id = X}}

AmendStep == calls' = calls + 1

----------------------------------------------------------------------------
(* C1: after the load and any sequence of completed apply_amendment calls, *)
(* every Component has exactly one CTV with is_active = true, and that CTV *)
(* has date_end = null.                                                    *)
SingleActive ==
    (Loaded /\ ~raised) =>
        \A c \in DOMAIN graph.component :
            /\ Cardinality(ActiveCtvs(graph, c)) = 1
            /\ \A v \in ActiveCtvs(graph, c) : graph.ctv[v].date_end = Null

\* two completed calls after the load, and a component on its third version
SingleActiveWitness ==
    /\ Loaded /\ ~raised /\ calls = 2
    /\ \E c \in DOMAIN graph.component : Cardinality(CtvsOf(graph, c)) >= 3

(* C2: for every CTV v of every component C that has HAS_CHILD children,   *)
(* however v was created, the components of the CTVs reached by v's        *)
(* AGGREGATES edges are exactly C's children, with one edge per child.     *)
AggregatesComplete ==
    \A v \in DOMAIN graph.ctv :
        LET C == graph.ctv[v].component_id
            out == {r \in graph.aggregates : r.parent = v}
        IN  Children(graph, C) # {} =>
                /\ {graph.ctv[r.child].component_id : r \in out}
                        = Children(graph, C)
                /\ Cardinality(out) = Cardinality(Children(graph, C))

(* C3: with amendments applied in non-decreasing date order, for every CTV *)
(* v and every date D in [v.date_start, v.date_end), every child CTV       *)
(* reached by an AGGREGATES edge from v is itself valid at D.              *)
PointInTimeClosure ==
    chronological =>
        \A r \in graph.aggregates : \A D \in QueryDates :
            ValidAt(graph.ctv[r.parent], D) => ValidAt(graph.ctv[r.child], D)

\* a closed, non-empty parent version that shares a child CTV with its
\* successor
PointInTimeClosureWitness ==
    /\ chronological /\ calls = 2
    /\ \E r1, r2 \in graph.aggregates :
        /\ r1.child = r2.child
        /\ <<r2.parent, r1.parent>> \in graph.supersedes
        /\ graph.ctv[r1.parent].date_end # Null
        /\ graph.ctv[r1.parent].date_start < graph.ctv[r1.parent].date_end
        /\ graph.ctv[r1.parent].version_number > 1

(* C4: apply_amendment creates and closes CTVs only for the components     *)
(* named in its changes and for their HAS_CHILD ancestors: every other     *)
(* component keeps exactly the same CTVs with the same properties; so a    *)
(* component touched by no amendment always has exactly one CTV, version 1,*)
(* with date_end = null.                                                   *)
FrameStep ==
    AmendStep =>
        LET named == NamedIds(last_call'.changes)
            affected == named \cup AncestorsOfAll(graph, named)
        IN  \A c \in DOMAIN graph.component \ affected :
                /\ CtvsOf(graph', c) = CtvsOf(graph, c)
                /\ \A v \in CtvsOf(graph, c) : graph'.ctv[v] = graph.ctv[v]

UntouchedKeepsV1 ==
    \A c \in DOMAIN graph.component \ touched :
        /\ CtvsOf(graph, c) = {<<c, 1>>}
        /\ graph.ctv[<<c, 1>>].version_number = 1
        /\ graph.ctv[<<c, 1>>].date_end = Null
        /\ graph.ctv[<<c, 1>>].is_active

AmendmentFrame == [][FrameStep]_vars /\ []UntouchedKeepsV1

\* article B is still on its version 1 after two calls that versioned its
\* sibling A and its parent T
AmendmentFrameWitness ==
    /\ Loaded /\ calls = 2
    /\ "B" \notin touched /\ "A" \in touched
    /\ Cardinality(CtvsOf(graph, "T")) = 3
    /\ CtvsOf(graph, "B") = {<<"B", 1>>}

(* C5: when an amendment versions a parent P by propagation, for every     *)
(* child X of P that got no new CTV in this amendment the new CTV of P has *)
(* an AGGREGATES edge to the very CTV of X that P's previous CTV           *)
(* aggregated, and for every child that got a new CTV the edge points to   *)
(* that new CTV.                                                           *)
ReuseStep ==
    AmendStep =>
        \A new_p \in DOMAIN graph'.ctv \ DOMAIN graph.ctv :
            graph'.ctv[new_p].created_by_action = "amendment_propagation" =>
                LET P == graph'.ctv[new_p].component_id
                IN  \A X \in Children(graph', P) :
                      LET new_x == CtvsOf(graph', X) \ CtvsOf(graph, X)
                          now == AggregatedOf(graph', new_p, X)
                      IN  /\ Cardinality(now) = 1
                          /\ IF new_x = {}
                             THEN \E old_p \in ActiveCtvs(graph, P) :
                                    now = AggregatedOf(graph, old_p, X)
                             ELSE now \subseteq new_x

ReuseByIdentity == [][ReuseStep]_vars

(* C6: a call whose changes name k distinct components that each have an   *)
(* active CTV creates exactly k + |A| CTV nodes, A the set of distinct     *)
(* HAS_CHILD ancestors of those components, and new_ctvs grows by the same *)
(* number, whatever the number of components in the graph.                 *)
NewCtvCountStep ==
    AmendStep =>
        LET changes == last_call'.changes
            named == NamedIds(changes)
            k == Len(changes)
            A == AncestorsOfAll(graph, named)
        IN  (/\ Cardinality(named) = k
             /\ \A c \in named : ActiveCtvs(graph, c) # {})
            =>
            /\ Cardinality(DOMAIN graph'.ctv) =
                    Cardinality(DOMAIN graph.ctv) + k + Cardinality(A)
            /\ stats'.new_ctvs = stats.new_ctvs + k + Cardinality(A)

NewCtvCount == [][NewCtvCountStep]_vars

\* the latest call named the paragraph P and its sibling-free uncle B: two
\* changes, two distinct ancestors (A and T), four new CTVs
NewCtvCountWitness ==
    /\ Loaded /\ calls >= 1
    /\ NamedIds(last_call.changes) = {"P", "B"}
    /\ Len(last_call.changes) = 2
    /\ \A c \in {"P", "B", "A", "T"} :
            \E v \in CtvsOf(graph, c) :
                /\ graph.ctv[v].amendment_number = last_call.number
                /\ graph.ctv[v].is_active

(* C7: with amendments applied in non-decreasing date order, none earlier  *)
(* than the enactment date, any two distinct CTVs of the same component    *)
(* have disjoint half-open validity intervals.                             *)
DisjointValidity ==
    chronological =>
        \A v, w \in DOMAIN graph.ctv :
            (v # w /\ graph.ctv[v].component_id = graph.ctv[w].component_id)
            => \A D \in QueryDates :
                    ~(ValidAt(graph.ctv[v], D) /\ ValidAt(graph.ctv[w], D))

\* a component with two non-empty closed-or-open versions after a third
DisjointValidityWitness ==
    /\ chronological /\ calls = 2
    /\ \E c \in DOMAIN graph.component :
        /\ Cardinality(CtvsOf(graph, c)) = 3
        /\ \E v, w \in CtvsOf(graph, c) :
            /\ v # w
            /\ \E D \in QueryDates : ValidAt(graph.ctv[v], D)
            /\ \E D \in QueryDates : ValidAt(graph.ctv[w], D)

(* C8: with amendments applied in non-decreasing date order (equal dates   *)
(* allowed), for consecutive versions n and n+1 of a component the         *)
(* date_end of n equals the date_start of n+1, and of any two CTVs of a    *)
(* component the one with the lower version_number has a strictly earlier  *)
(* date_start.                                                             *)
VersionDatesStrict ==
    chronological =>
        \A v, w \in DOMAIN graph.ctv :
            graph.ctv[v].component_id = graph.ctv[w].component_id =>
                /\ graph.ctv[w].version_number = graph.ctv[v].version_number + 1
                        => graph.ctv[v].date_end = graph.ctv[w].date_start
                /\ graph.ctv[v].version_number < graph.ctv[w].version_number
                        => graph.ctv[v].date_start < graph.ctv[w].date_start

(* C8 as amended: ... the one with the lower version_number has an earlier *)
(* or equal date_start (equal when both were created on the same date).    *)
VersionDates ==
    chronological =>
        \A v, w \in DOMAIN graph.ctv :
            graph.ctv[v].component_id = graph.ctv[w].component_id =>
                /\ graph.ctv[w].version_number = graph.ctv[v].version_number + 1
                        => graph.ctv[v].date_end = graph.ctv[w].date_start
                /\ graph.ctv[v].version_number < graph.ctv[w].version_number
                        => graph.ctv[v].date_start <= graph.ctv[w].date_start

\* two amendments of the same date after the enactment date: versions 2 and
\* 3 of a component start on the same day, later than version 1
VersionDatesWitness ==
    /\ chronological /\ calls = 2
    /\ \E c \in DOMAIN graph.component :
        /\ {<<c, 1>>, <<c, 2>>, <<c, 3>>} \subseteq CtvsOf(graph, c)
        /\ graph.ctv[<<c, 1>>].date_start < graph.ctv[<<c, 2>>].date_start
        /\ graph.ctv[<<c, 2>>].date_start = graph.ctv[<<c, 3>>].date_start
        /\ graph.ctv[<<c, 2>>].amendment_number
                # graph.ctv[<<c, 3>>].amendment_number

(* C9: with amendments applied in non-decreasing date order, of two CTVs   *)
(* of a component the one with the later date_start has the strictly       *)
(* greater version_number, and the active CTV of a component is the one    *)
(* with the greatest version_number.                                       *)
MonotoneVersions ==
    chronological =>
        \A v, w \in DOMAIN graph.ctv :
            graph.ctv[v].component_id = graph.ctv[w].component_id =>
                /\ graph.ctv[v].date_start < graph.ctv[w].date_start
                        => graph.ctv[v].version_number
                                < graph.ctv[w].version_number
                /\ graph.ctv[v].is_active
                        => graph.ctv[w].version_number
                                <= graph.ctv[v].version_number

\* a component whose three versions start on three different dates
MonotoneVersionsWitness ==
    /\ chronological /\ calls = 2
    /\ \E c \in DOMAIN graph.component :
        /\ {<<c, 1>>, <<c, 2>>, <<c, 3>>} \subseteq CtvsOf(graph, c)
        /\ graph.ctv[<<c, 1>>].date_start < graph.ctv[<<c, 2>>].date_start
        /\ graph.ctv[<<c, 2>>].date_start < graph.ctv[<<c, 3>>].date_start

(* C10: every CTV with version_number n > 1 has exactly one outgoing       *)
(* SUPERSEDES edge, and its target is the CTV of the same component with   *)
(* version_number n - 1; CTVs with version_number 1 have none.             *)
SupersedesChain ==
    \A v \in DOMAIN graph.ctv :
        LET out == {e \in graph.supersedes : e[1] = v}
            n == graph.ctv[v].version_number
        IN  IF n > 1
            THEN /\ Cardinality(out) = 1
                 /\ \A e \in out :
                        /\ e[2] \in DOMAIN graph.ctv
                        /\ graph.ctv[e[2]].component_id
                                = graph.ctv[v].component_id
                        /\ graph.ctv[e[2]].version_number = n - 1
            ELSE out = {}

\* versions made by a direct change and by propagation, one on top of the
\* other, in one component
SupersedesChainWitness ==
    /\ Loaded
    /\ \E v, w \in DOMAIN graph.ctv :
        /\ <<v, w>> \in graph.supersedes
        /\ graph.ctv[v].created_by_action = "amendment_propagation"
        /\ graph.ctv[w].created_by_action = "amendment"

EarlierDateStep ==
    (AmendStep /\ last_call'.date < MaxDateStart(graph)) =>
        /\ graph' = graph
        /\ raised'

EarlierDateWritesNothing == [][EarlierDateStep]_vars

(* C12: calling apply_amendment a second time with an amendment_number     *)
(* whose Action node already exists (same number, date and changes) is a   *)
(* no-op: the CTVs, their is_active and date_end values, and all           *)
(* SUPERSEDES, AGGREGATES and RESULTED_IN edges are the same after the     *)
(* second call as after the first.                                         *)
DuplicateStep ==
    (/\ AmendStep
     /\ last_call' = last_call
     /\ last_call.number \in DOMAIN graph.action)
    =>
    /\ DOMAIN graph'.ctv = DOMAIN graph.ctv
    /\ \A v \in DOMAIN graph.ctv :
            /\ graph'.ctv[v].is_active = graph.ctv[v].is_active
            /\ graph'.ctv[v].date_end = graph.ctv[v].date_end
    /\ graph'.supersedes = graph.supersedes
    /\ graph'.aggregates = graph.aggregates
    /\ graph'.resulted_in = graph.resulted_in

DuplicateIsNoOp == [][DuplicateStep]_vars

(* C14: if a store operation of apply_amendment fails after the Action     *)
(* node was created (for example between closing a component's active CTV  *)
(* and creating its successor, or when an affected ancestor has no active  *)
(* CTV), the graph is left exactly as it was before the call: no CTV stays *)
(* closed without a successor, and no new CTV, Action or edge remains.     *)
CallFails ==
    /\ Loaded
    /\ \/ frame.pc \notin {"idle", "return"} /\ frame'.pc = "idle"
       \/ /\ frame.pc = "anc_query"
          /\ ActiveCtvs(graph, frame.sorted_ancestors[frame.j]) = {}

RollbackStep == CallFails => graph' = frame.before

FailureRollsBack == [][RollbackStep]_vars

(* C15: a reader whose query runs between two store operations of one      *)
(* in-flight apply_amendment observes either the complete pre-amendment    *)
(* graph or the complete post-amendment graph: never a component with no   *)
(* active CTV, a new leaf CTV whose ancestors are still on their old       *)
(* versions, or a new parent CTV without its AGGREGATES edges.             *)
InFlight == Loaded /\ frame.pc # "idle"

\* once the store differs from the pre-amendment graph it is the
\* post-amendment graph: the call changes it no further
AtomicStep ==
    (InFlight /\ frame'.pc # "idle" /\ graph # frame.before) => graph' = graph

NoActiveCtv ==
    \E c \in DOMAIN graph.component :
        /\ ActiveCtvs(frame.before, c) # {}
        /\ ActiveCtvs(graph, c) = {}

NewLeafOldAncestor ==
    \E h \in graph.has_child :
        /\ \E v \in ActiveCtvs(graph, h[2]) :
                graph.ctv[v].amendment_number = frame.number
        /\ \E w \in ActiveCtvs(graph, h[1]) :
                graph.ctv[w].amendment_number # frame.number

NewParentNoAggregates ==
    \E w \in DOMAIN graph.ctv \ DOMAIN frame.before.ctv :
        /\ graph.ctv[w].created_by_action = "amendment_propagation"
        /\ Children(graph, graph.ctv[w].component_id) # {}
        /\ ~\E r \in graph.aggregates : r.parent = w

TornRead == NoActiveCtv \/ NewLeafOldAncestor \/ NewParentNoAggregates

ReaderAtomicity == [][AtomicStep]_vars /\ [](InFlight => ~TornRead)

OwnRowOnly ==
    Loaded =>
        \A X \in Requests : \A D \in QueryDates :
            \A result \in RetrievePointInTime(graph, X, D) :
                LET own == {v \in DOMAIN graph.ctv :
                                /\ IdSegments(graph.ctv[v].component_id) = X
                                /\ ValidAt(graph.ctv[v], D)}
                IN  /\ Len(result) <= 1
                    /\ \A i \in 1..Len(result) :
                            IdSegments(result[i].component_id) = X
                    /\ (own = {} \/ \E v \in own :
                                        graph.ctv[v].is_repealed = "true")
                            => result = << >>

(* C18: provenance retrieval by amendment_number returns one row for every *)
(* CTV that has a RESULTED_IN edge from that amendment's Action (up to     *)
(* top_k), including CTVs produced by a repeal, and each row carries as    *)
(* previous_text the text of the CTV it SUPERSEDES.                        *)
ProvenanceComplete ==
    \A a \in DOMAIN graph.action : \A top_k \in TopKs :
        \A result \in RetrieveProvenance(graph,
                          graph.action[a].amendment_number, top_k) :
            LET linked == {l[2] : l \in {x \in graph.resulted_in : x[1] = a}}
            IN  /\ Cardinality(result) = Min(top_k, Cardinality(linked))
                /\ \A r \in result : \E v \in linked :
                        /\ r.component_id = graph.ctv[v].component_id
                        /\ r.version = graph.ctv[v].version_number
                        /\ \A e \in graph.supersedes :
                                e[1] = v => r.previous_text = Shown(graph, e[2])

(* C19: version-history retrieval for a component_id returns one row for   *)
(* every CTV of that component (also for repealed versions and versions    *)
(* without text), ordered by version_number descending, truncated to top_k *)
(* after ordering, each row carrying that version's date_start, date_end   *)
(* and amendment number (null for version 1).                              *)
HistoryComplete ==
    \A c \in DOMAIN graph.component : \A top_k \in TopKs :
        \A result \in RetrieveHistory(graph, IdSegments(c), top_k) :
            LET all == CtvsOf(graph, c)
            IN  /\ Len(result) = Min(top_k, Cardinality(all))
                /\ \A i \in 1..Len(result) : \E v \in all :
                        /\ Cardinality({w \in all :
                                graph.ctv[w].version_number
                                    > graph.ctv[v].version_number}) = i - 1
                        /\ result[i].version = graph.ctv[v].version_number
                        /\ result[i].start = graph.ctv[v].date_start
                        /\ result[i].end = graph.ctv[v].date_end
                        /\ result[i].amendment = graph.ctv[v].amendment_number
                        /\ (graph.ctv[v].version_number = 1
                                => result[i].amendment = Null)

(* C20: a change with change_type = repeal produces a new active CTV with  *)
(* is_repealed = true that has no EXPRESSED_IN edge (no CLV and no         *)
(* TextUnit), whatever new_content the change carries; the component's     *)
(* previous CTV keeps its own text.                                        *)
RepealStep ==
    (/\ frame.pc = "create"
     /\ frame.changes[frame.i].change_type = "repeal"
     /\ frame'.pc # "idle")
    =>
    /\ frame.new_ctv_id \in DOMAIN graph'.ctv \ DOMAIN graph.ctv
    /\ graph'.ctv[frame.new_ctv_id].is_active
    /\ graph'.ctv[frame.new_ctv_id].is_repealed = "true"
    /\ frame.new_ctv_id \notin DOMAIN graph'.text
    \* no write of a CLV follows
    /\ frame'.pc = "link"

KeepsTextStep ==
    \A v \in DOMAIN graph.text :
        v \in DOMAIN graph'.text /\ graph'.text[v] = graph.text[v]

RepealedHasNoText ==
    \A v \in DOMAIN graph.ctv :
        graph.ctv[v].is_repealed = "true" => v \notin DOMAIN graph.text

RepealWithoutText ==
    [][RepealStep /\ KeepsTextStep]_vars /\ []RepealedHasNoText

\* the call has returned after the repeal of article B that carried the text
\* "Amended": B's new version is active and has no text, version 1 has its own
RepealWithoutTextWitness ==
    /\ frame.pc = "idle" /\ ~raised
    /\ last_call.changes = <<Change("B", "Amended", "repeal")>>
    /\ <<"B", 2>> \in DOMAIN graph.ctv
    /\ graph.ctv[<<"B", 2>>].is_repealed = "true"
    /\ graph.ctv[<<"B", 2>>].is_active
    /\ graph.ctv[<<"B", 2>>].amendment_number = last_call.number
    /\ <<"B", 2>> \notin DOMAIN graph.text
    /\ <<"B", 1>> \in DOMAIN graph.text
    /\ graph.text[<<"B", 1>>] = "Original B"

(* C21: every CTV of a text-bearing leaf component (article, paragraph,    *)
(* item, letter) that is not a repeal has its EXPRESSED_IN -> CLV ->       *)
(* HAS_TEXT -> TextUnit chain, also when it was made by a change whose     *)
(* new_content is empty.                                                   *)
TextBearingTypes == {"article", "paragraph", "item", "letter"}

LeafText ==
    \A v \in DOMAIN graph.ctv :
        (/\ graph.component[graph.ctv[v].component_id].component_type
                \in TextBearingTypes
         /\ graph.ctv[v].is_repealed # "true")
        => v \in DOMAIN graph.text

(* C22: a change that names a component with no active CTV is skipped: it  *)
(* creates and closes no CTV and hands none of its ancestors to the         *)
(* propagation, the other changes of the amendment are applied exactly as   *)
(* if the skipped change were absent, and apply_amendment returns normally. *)
\* the stores a call that worked through all of its steps can leave behind
CallResults(g, amendment_number, amendment_date, changes) ==
    LET e1 == CreateAction([g |-> g, stats |-> stats, raised |-> FALSE],
                           amendment_number, amendment_number, amendment_date)
        st == ProcessChanges([e |-> e1, affected_ancestors |-> {}],
                             changes, 1, amendment_number, amendment_date)
    IN  {ProcessAncestors(st.e, sorted_ancestors, 1, amendment_date,
                          amendment_number).g :
            sorted_ancestors \in
                SortByDepth(st.e.g, st.affected_ancestors, TRUE)}

\* the changes of the call whose component had an active CTV
KeptChanges(g, changes) ==
    SelectSeq(changes, LAMBDA ch : ActiveCtvs(g, ch.component_id) # {})

SkipStep ==
    (/\ frame.pc = "query"
     /\ ActiveCtvs(graph, frame.changes[frame.i].component_id) = {}
     /\ frame'.pc # "idle")
    =>
    /\ graph' = graph
    /\ stats' = stats
    /\ raised' = raised
    /\ frame' = NextChange(frame)

SkippedAsAbsent ==
    frame.pc = "return" =>
        /\ graph \in CallResults(frame.before, frame.number, frame.date,
                                 KeptChanges(frame.before, frame.changes))
        /\ \A c \in NamedIds(frame.changes) :
                ActiveCtvs(frame.before, c) = {} =>
                    /\ CtvsOf(graph, c) = CtvsOf(frame.before, c)
                    /\ \A v \in CtvsOf(graph, c) :
                            graph.ctv[v] = frame.before.ctv[v]

SkipsUnknown == [][SkipStep]_vars /\ []SkippedAsAbsent

\* an earlier call broke off after closing P's version: the call in progress
\* names P, which has no active CTV, and B; it is about to return with B
\* repealed and P and P's parent A as they were
SkipsUnknownWitness ==
    /\ frame.pc = "return"
    /\ frame.changes = <<Change("P", "Amended", "modify"),
                         Change("B", "", "repeal")>>
    /\ "P" \in DOMAIN frame.before.component
    /\ ActiveCtvs(frame.before, "P") = {}
    /\ ActiveCtvs(frame.before, "B") # {}
    /\ ActiveCtvs(graph, "B") \cap DOMAIN frame.before.ctv = {}
    /\ CtvsOf(graph, "P") = CtvsOf(frame.before, "P")
    /\ CtvsOf(graph, "A") = CtvsOf(frame.before, "A")
    /\ CtvsOf(graph, "T") # CtvsOf(frame.before, "T")

(* C23: after load_from_json on an empty store there is one Component per  *)
(* node of the tree; each has exactly one CTV, <<id, 1>>, with             *)
(* version_number 1, is_active, date_start = the enactment date and no     *)
(* date_end; every parent-child link of the tree has exactly one HAS_CHILD *)
(* edge and exactly one AGGREGATES edge between the two version-1 CTVs,    *)
(* whose ordering is the child's position among its siblings; the          *)
(* top-level components hang on the Norm by HAS_COMPONENT and no           *)
(* AGGREGATES edge enters them.                                            *)
\* the nodes of the input tree, read off the document itself
RECURSIVE NodesOf(_)
NodesOf(children) ==
    UNION {{children[i]} \cup NodesOf(children[i].children) :
                i \in 1..Len(children)}

TreeNodes == NodesOf(ConstitutionJson.components)

TreeLinks ==
    UNION {{[parent |-> n.component_id,
             child |-> n.children[i].component_id,
             index |-> i] : i \in 1..Len(n.children)} : n \in TreeNodes}

TopLevelIds ==
    {ConstitutionJson.components[i].component_id :
        i \in 1..Len(ConstitutionJson.components)}

LoadPostcondition(g) ==
    /\ DOMAIN g.component = {n.component_id : n \in TreeNodes}
    /\ Cardinality(DOMAIN g.component) = Cardinality(TreeNodes)
    /\ DOMAIN g.ctv = {<<c, 1>> : c \in DOMAIN g.component}
    /\ \A c \in DOMAIN g.component :
            /\ CtvsOf(g, c) = {<<c, 1>>}
            /\ g.ctv[<<c, 1>>].component_id = c
            /\ g.ctv[<<c, 1>>].version_number = 1
            /\ g.ctv[<<c, 1>>].is_active
            /\ g.ctv[<<c, 1>>].date_start = EnactmentDate
            /\ g.ctv[<<c, 1>>].date_end = Null
    /\ g.has_child = {<<l.parent, l.child>> : l \in TreeLinks}
    /\ g.aggregates = {[parent |-> <<l.parent, 1>>, child |-> <<l.child, 1>>,
                        ordering |-> l.index] : l \in TreeLinks}
    /\ Cardinality(g.aggregates) = Cardinality(TreeLinks)
    /\ g.has_component =
            {<<ConstitutionJson.official_id, c>> : c \in TopLevelIds}
    /\ \A c \in TopLevelIds :
            ~ \E r \in g.aggregates : g.ctv[r.child].component_id = c

LoadStep ==
    (graph = EmptyGraph /\ DOMAIN graph'.component # {})
        => LoadPostcondition(graph')

LoadOnEmptyStore == [][LoadStep]_vars

\* the store right after the load: five components, three links, and B is
\* the second child of T
LoadOnEmptyStoreWitness ==
    /\ calls = 0
    /\ Cardinality(DOMAIN graph.component) = 5
    /\ Cardinality(graph.aggregates) = 3
    /\ [parent |-> <<"T", 1>>, child |-> <<"B", 1>>, ordering |-> 2]
            \in graph.aggregates
    /\ <<"CF1988", "U">> \in graph.has_component

(* C24: running the loader again on the same tree creates no node and no   *)
(* edge and changes no property, also when amendments were applied in      *)
(* between: a closed version 1 stays closed.                               *)
LoaderIdempotent ==
    Loaded => LoadFromJson(graph, ConstitutionJson) = graph

\* amendments have closed version 1 of the paragraph P; the loader run on
\* this store leaves it closed
LoaderIdempotentWitness ==
    /\ Loaded
    /\ calls >= 1
    /\ <<"P", 2>> \in DOMAIN graph.ctv
    /\ ~graph.ctv[<<"P", 1>>].is_active
    /\ graph.ctv[<<"P", 1>>].date_end # Null
    /\ ~LoadFromJson(graph, ConstitutionJson).ctv[<<"P", 1>>].is_active

(* C25: the batch driver applies the amendments in non-decreasing order of *)
(* amendment_date, whatever the order of its input list: no                *)
(* apply_amendment call carries a date earlier than the call before it.    *)
BatchCallStep ==
    (AmendStep /\ calls >= 1) => last_call'.date >= last_call.date

BatchInDateOrder == [][BatchCallStep]_vars

(* C26: within one apply_amendment call every directly changed component   *)
(* is versioned before any ancestor is, and the affected ancestors are     *)
(* processed deepest first, so that when a component's new CTV gets its    *)
(* AGGREGATES edges every affected component of its subtree already has    *)
(* its new active CTV.  A component without an active CTV is skipped by    *)
(* the call (C22) and is not among the affected ones.                      *)
AncestorPhase ==
    frame.pc \in {"anc_query", "anc_close", "anc_create", "anc_text",
                  "anc_aggregates", "anc_reused"}

\* the components the call names and does not skip
Changed ==
    {c \in NamedIds(frame.changes) : ActiveCtvs(frame.before, c) # {}}

\* the changed components and those of their ancestors that have an active
\* CTV to be superseded
Affected ==
    Changed \cup {c \in AncestorsOfAll(frame.before, Changed) :
                    ActiveCtvs(frame.before, c) # {}}

\* the component has an active CTV that this call created
HasNewActiveCtv(c) ==
    \E v \in ActiveCtvs(graph, c) : v \notin DOMAIN frame.before.ctv

DirectChangesFirst ==
    AncestorPhase =>
        /\ frame.i > Len(frame.changes)
        /\ \A c \in Changed : CtvsOf(graph, c) \ DOMAIN frame.before.ctv # {}

DeepestFirst ==
    AncestorPhase =>
        /\ {frame.sorted_ancestors[k] : k \in 1..Len(frame.sorted_ancestors)}
                = AncestorsOfAll(frame.before, Changed)
        /\ \A a, b \in 1..Len(frame.sorted_ancestors) :
                a < b =>
                    Cardinality(AncestorsOfAll(graph,
                                    {frame.sorted_ancestors[a]}))
                    >= Cardinality(AncestorsOfAll(graph,
                                    {frame.sorted_ancestors[b]}))

SubtreeReady ==
    frame.pc = "anc_aggregates" =>
        \A x \in Affected :
            frame.sorted_ancestors[frame.j] \in AncestorsOfAll(graph, {x})
                => HasNewActiveCtv(x)

\* the edges the step writes leave the new CTV, and the one to an affected
\* child component ends at the CTV this call made for it
AggregatesStep ==
    (/\ frame.pc = "anc_aggregates"
     /\ frame'.pc # "idle")
    =>
    \A r \in graph'.aggregates \ graph.aggregates :
        /\ r.parent = frame.new_ctv_id
        /\ graph.ctv[r.child].component_id \in Affected
                => /\ r.child \notin DOMAIN frame.before.ctv
                   /\ graph.ctv[r.child].is_active

BottomUpOrder ==
    /\ [][AggregatesStep]_vars
    /\ [](DirectChangesFirst /\ DeepestFirst /\ SubtreeReady)

\* the call names P and B; the title T is about to get its AGGREGATES edges,
\* and P, B and the article A between them have their new active CTVs
BottomUpOrderWitness ==
    /\ frame.pc = "anc_aggregates"
    /\ frame.changes = <<Change("P", "Amended", "modify"),
                         Change("B", "", "repeal")>>
    /\ frame.sorted_ancestors = <<"A", "T">>
    /\ frame.sorted_ancestors[frame.j] = "T"
    /\ HasNewActiveCtv("P") /\ HasNewActiveCtv("A") /\ HasNewActiveCtv("B")

(* C27: within one apply_amendment call every changed component and every  *)
(* ancestor of one has exactly one CTV closed and exactly one new CTV      *)
(* opened, also when the changes name a component twice or name an         *)
(* ancestor of another named component.                                    *)
\* the CTVs of component c that the step made
OpenedBy(c) == CtvsOf(graph', c) \ CtvsOf(graph, c)

\* the CTVs of component c that the step closed: closed after it, and not
\* closed before it
ClosedBy(c) ==
    {v \in CtvsOf(graph', c) :
        /\ ~graph'.ctv[v].is_active
        /\ (v \in DOMAIN graph.ctv => graph.ctv[v].is_active)}

OneVersionStep ==
    (AmendStep /\ Loaded /\ SingleActive) =>
        \A c \in NamedIds(last_call'.changes)
                    \cup AncestorsOfAll(graph, NamedIds(last_call'.changes)) :
            /\ Cardinality(OpenedBy(c)) = 1
            /\ Cardinality(ClosedBy(c)) = 1

OneVersionPerCall == [][OneVersionStep]_vars

(* C28: a successful apply_amendment call raises stats.reused_ctvs by       *)
(* exactly the number of AGGREGATES edges that lead from the call's new     *)
(* ancestor CTVs to child CTVs that existed before the call, also when the  *)
(* amendment before it carried the same amendment_date.                     *)
ReusedCountStep ==
    (AmendStep /\ Loaded /\ ~raised') =>
        stats'.reused_ctvs - stats.reused_ctvs =
            Cardinality({r \in graph'.aggregates \ graph.aggregates :
                            r.child \in DOMAIN graph.ctv})

ReusedCountsCarriedOver == [][ReusedCountStep]_vars

(* C29: in every reachable state, for every CTV of a parent component and  *)
(* every child component X, the ordering on the AGGREGATES edge to X's CTV *)
(* is the sibling index the loader gave X under that parent, through every *)
(* later version of the parent, also after an amendment changed the parent *)
(* directly.                                                               *)
OrderingCarried ==
    \A r \in graph.aggregates :
        \A l \in TreeLinks :
            (/\ graph.ctv[r.parent].component_id = l.parent
             /\ graph.ctv[r.child].component_id = l.child)
            => r.ordering = l.index

(* C30: history is never rewritten: no CTV is ever deleted; once a CTV is  *)
(* closed its date_start, date_end and version_number never change and it  *)
(* is never made active again; and the AGGREGATES edges that leave a CTV   *)
(* never change once the call that created the CTV is over.                *)
\* the CTV was not made by the call in progress
MadeByEarlierCall(v) ==
    frame.pc = "idle" \/ v \in DOMAIN frame.before.ctv

OutgoingAggregates(g, v) == {r \in g.aggregates : r.parent = v}

HistoryStep ==
    \A v \in DOMAIN graph.ctv :
        /\ v \in DOMAIN graph'.ctv
        /\ ~graph.ctv[v].is_active =>
                /\ ~graph'.ctv[v].is_active
                /\ graph'.ctv[v].date_start = graph.ctv[v].date_start
                /\ graph'.ctv[v].date_end = graph.ctv[v].date_end
                /\ graph'.ctv[v].version_number = graph.ctv[v].version_number
        /\ MadeByEarlierCall(v) =>
                OutgoingAggregates(graph', v) = OutgoingAggregates(graph, v)

HistoryKept == [][HistoryStep]_vars

\* two calls have returned, both changed the paragraph P: version 1 and
\* version 2 of P are closed, version 3 is active, and version 2 of the
\* title T, made by the first call, is closed and still has its edges
HistoryKeptWitness ==
    /\ frame.pc = "idle" /\ ~raised /\ calls = 2
    /\ <<"P", 3>> \in DOMAIN graph.ctv
    /\ ~graph.ctv[<<"P", 1>>].is_active
    /\ ~graph.ctv[<<"P", 2>>].is_active
    /\ graph.ctv[<<"P", 1>>].date_end = graph.ctv[<<"P", 2>>].date_start
    /\ ~graph.ctv[<<"T", 2>>].is_active
    /\ Cardinality(OutgoingAggregates(graph, <<"T", 2>>)) = 2
    /\ Cardinality(OutgoingAggregates(graph, <<"T", 1>>)) = 2

====
